---- MODULE Spec2Model ----
(***************************************************************************)
(* Last-level-cache size estimator (main.go and its earlier variant        *)
(* unnamed/part_000): the two-phase sweep of estimate_llc_size, its        *)
(* closures testRange and maxSlope, and formatBytes.                       *)
(*                                                                         *)
(* Go slices are 0-based; the model keeps the code's 0-based indices in    *)
(* its variables and reads a sequence through At.                          *)
(***************************************************************************)
EXTENDS Integers, Sequences, FiniteSets, TLC

VARIABLES
    mode,            \* "run": estimate_llc_size; "knee" / "format": a pure function under test
    variant,         \* which source file runs: "main.go" or "part_000"
    bench,           \* the latency curve the machine shows (the timer's answers)
    pc,              \* position in estimate_llc_size
    sizes,           \* sizes: the geometric candidate sizes
    phase,           \* 0 before the first testRange call, 1 and 2 during/after each
    ri,              \* hidden index of `for _, size := range sizes` in testRange
    xysLocal,        \* testRange's local xys
    arr,             \* testRange's arr: [len, a] with a the touched elements; NoBuffer when none
    i,               \* the access loop's i
    elapsed,         \* testRange's elapsed (nanoseconds)
    xys,             \* estimate_llc_size's xys
    maxPos,          \* estimate_llc_size's maxPos (phase-1 knee)
    stepSize,        \* estimate_llc_size's stepSize
    convergedSizes,  \* estimate_llc_size's convergedSizes
    estimate,        \* main's estimate
    stdout,          \* sizes named by testRange's progress lines, in order
    printed,         \* main's last line: formatBytes(estimate)
    kin,             \* maxSlope under test: its argument
    kout,            \* maxSlope under test: its result
    fin,             \* formatBytes under test: its argument
    fout             \* formatBytes under test: its result

vars == <<mode, variant, bench, pc, sizes, phase, ri, xysLocal, arr, i, elapsed,
          xys, maxPos, stepSize, convergedSizes, estimate, stdout, printed,
          kin, kout, fin, fout>>

runVars == <<variant, bench, pc, sizes, phase, ri, xysLocal, arr, i, elapsed,
             xys, maxPos, stepSize, convergedSizes, estimate, stdout, printed>>

(***************************************************************************)
(* Bounds of the model.                                                    *)
(***************************************************************************)
\* The access loop is followed for at most this many iterations.
MaxAccesses == 2
\* Series given to maxSlope under test have at most this many samples ...
MaxSeriesLen == 5
\* ... with latencies in 0..MaxLatency.
MaxLatency == 2

(***************************************************************************)
(* Program constants.                                                      *)
(***************************************************************************)
Floor == 1024
Ceiling == 64 * 1024 * 1024
linearSteps == 8
unit == 1024
CacheLineBytes == 64
Int32Bytes == 4
IterationsStep1 == 8000000
IterationsStep2 == 32000000
IterationsVariant == 1024 * 1024 * 16

Variants == {"main.go", "part_000"}
NoBuffer == [len |-> -1, a |-> <<>>]

At(s, n) == s[n + 1]
Last(s) == s[Len(s)]
InRange(s, n) == n >= 0 /\ n < Len(s)

(***************************************************************************)
(* formatBytes (main.go:143-155, part_000:16-28).                          *)
(*                                                                         *)
(* An int64 does not fit TLC's 32-bit integers, so b is held as its        *)
(* base-1024 digits, lowest first, without leading zero digits (0 is <<>>).*)
(* With that, b / unit drops the lowest digit and n >= unit says that at   *)
(* least two digits are left.                                              *)
(***************************************************************************)
Int64Bits == 63
Float64Mantissa == 53
LimbBits == 10

RECURSIVE Pow2(_)
Pow2(n) == IF n = 0 THEN 1 ELSE 2 * Pow2(n - 1)

RECURSIVE BitLen(_)
BitLen(n) == IF n = 0 THEN 0 ELSE 1 + BitLen(n \div 2)

\* Number of significant bits of b.
Bits(b) == IF b = <<>> THEN 0 ELSE LimbBits * (Len(b) - 1) + BitLen(Last(b))

\* b is a well-formed non-negative int64.
IsInt64(b) ==
    /\ \A n \in DOMAIN b : b[n] \in 0..(unit - 1)
    /\ b # <<>> => Last(b) # 0
    /\ Bits(b) <= Int64Bits

\* The digits of a small non-negative integer.
RECURSIVE ToLimbs(_)
ToLimbs(n) == IF n = 0 THEN <<>> ELSE <<n % unit>> \o ToLimbs(n \div unit)

\* The integer a digit sequence stands for (used only where it fits).
RECURSIVE FromLimbs(_)
FromLimbs(b) == IF b = <<>> THEN 0 ELSE Head(b) + unit * FromLimbs(Tail(b))

\* b < unit
LtUnit(b) == Len(b) <= 1
\* Variant of the loop test with > in place of >=.
GtUnit(n) == Len(n) >= 3 \/ (Len(n) = 2 /\ (n[2] > 1 \/ n[1] > 0))

\* n >= unit
GeUnit(n) == Len(n) >= 2
\* n / unit
DivUnit(n) == IF n = <<>> THEN <<>> ELSE Tail(n)

\* for n := b / unit; n >= unit; n /= unit { div *= unit; exp++ }
\* div is unit^(exp+1) throughout, so exp stands for both.
RECURSIVE UnitLoop(_, _)
UnitLoop(n, exp) == IF GeUnit(n) THEN UnitLoop(DivUnit(n), exp + 1) ELSE exp

\* b + 1024^(pos-1) on digits (carry propagation).
RECURSIVE AddAt(_, _)
AddAt(b, pos) ==
    IF pos > Len(b) THEN Append(b, 1)
    ELSE IF b[pos] + 1 < unit THEN [b EXCEPT ![pos] = @ + 1]
    ELSE AddAt([b EXCEPT ![pos] = 0], pos + 1)

\* float64(b): b rounded to a 53-bit mantissa, ties to even. At most 10 bits
\* are dropped (63 - 53), all of them in the lowest digit.
Float64(b) ==
    IF Bits(b) <= Float64Mantissa THEN b
    ELSE LET d     == Bits(b) - Float64Mantissa
             m     == Pow2(d)
             rem   == b[1] % m
             kept  == [b EXCEPT ![1] = @ - rem]
             odd   == IF d < LimbBits THEN (b[1] \div m) % 2 = 1 ELSE b[2] % 2 = 1
             up    == rem * 2 > m \/ (rem * 2 = m /\ odd)
         IN IF ~up THEN kept
            ELSE IF kept[1] + m < unit THEN [kept EXCEPT ![1] = @ + m]
            ELSE AddAt([kept EXCEPT ![1] = 0], 2)

\* f * 10 on digits: [l: the digits kept, c: the carry out of the top digit].
RECURSIVE Mul10(_, _)
Mul10(f, c) ==
    IF f = <<>> THEN [l |-> <<>>, c |-> c]
    ELSE LET p    == Head(f) * 10 + c
             rest == Mul10(Tail(f), p \div unit)
         IN [l |-> <<p % unit>> \o rest.l, c |-> rest.c]

\* Ties of %.1f go to the even digit.
TieRoundsUp(digit) == digit % 2 = 1

\* The number "%.1f" shows for float64(b)/float64(div), div = unit^(exp+1):
\* [whole, tenth]. Dividing by a power of two is exact, and the formatting
\* rounds the exact quotient to the nearest tenth, ties to even.
Quotient1f(b, exp) ==
    LET f      == Float64(b)
        whole  == FromLimbs(SubSeq(f, exp + 2, Len(f)))
        frac   == SubSeq(f, 1, exp + 1)
        m      == Mul10(frac, 0)
        top    == m.l[exp + 1]
        lower  == \E n \in 1..exp : m.l[n] # 0
        half   == unit \div 2
        up     == \/ top > half
                  \/ top = half /\ lower
                  \/ top = half /\ ~lower /\ TieRoundsUp(m.c)
        tenths == whole * 10 + m.c + (IF up THEN 1 ELSE 0)
    IN [whole |-> tenths \div 10, tenth |-> tenths % 10]

Prefixes == <<"K", "M", "G", "T", "P", "E">>
PanicString == "panic: index out of range"

\* "KMGTPE"[exp]
Prefix(exp) == IF InRange(Prefixes, exp) THEN At(Prefixes, exp) ELSE PanicString

\* exp of formatBytes for b >= unit.
Exponent(b) == UnitLoop(DivUnit(b), 0)

formatBytes(b) ==
    IF LtUnit(b) THEN ToString(FromLimbs(b)) \o " B"
    ELSE LET exp == Exponent(b)
             q   == Quotient1f(b, exp)
         IN IF ~InRange(Prefixes, exp) THEN PanicString
            ELSE ToString(q.whole) \o "." \o ToString(q.tenth) \o " "
                 \o Prefix(exp) \o "iB"

(***************************************************************************)
(* maxSlope (main.go:100-112, part_000:124-136). Samples are [X, Y]; the   *)
(* latencies Y are whole numbers (float64 of an int quotient), so their    *)
(* differences are exact.                                                  *)
(***************************************************************************)
\* Variant of the comparison that also moves the knee on an equal slope.
SlopeExceedsOrEqual(slope, max) == slope >= max

\* if slope > max
SlopeExceeds(slope, max) == slope > max

\* Variant that stores the index after the pair.
StoredPosNext(n) == n + 1

\* maxPos = i
StoredPos(n) == n

\* for i := 0; i < len(xys)-1; i++ { ... }
RECURSIVE maxSlopeLoop(_, _, _, _)
maxSlopeLoop(s, n, max, pos) ==
    IF n < Len(s) - 1
    THEN LET slope == At(s, n + 1).Y - At(s, n).Y
         IN IF SlopeExceeds(slope, max)
            THEN maxSlopeLoop(s, n + 1, slope, StoredPos(n))
            ELSE maxSlopeLoop(s, n + 1, max, pos)
    ELSE pos

maxSlope(s) == maxSlopeLoop(s, 0, 0, 0)

(***************************************************************************)
(* The size sequences of estimate_llc_size.                                *)
(***************************************************************************)
\* Variant of the loop test that doubles once more at the ceiling.
GenContinueInclusive(s) == Last(s) <= Ceiling

\* for sizes[len(sizes)-1] < 64*1024*1024
GenContinue(s) == Last(s) < Ceiling

\* Variant that adds the floor instead of doubling.
GenNextLinear(s) == Last(s) + Floor

\* sizes[len(sizes)-1]*2
GenNext(s) == Last(s) * 2

\* stepSize := int(sizeRange / linearSteps), sizeRange := sizes[maxPos+1] - sizes[maxPos]
StepSizeOf(lower, upper) == (upper - lower) \div linearSteps

\* Variant that starts one step above the lower bound.
ConvergedAtNext(lower, step, n) == lower + (n + 1) * step

\* convergedSizes[i] = sizes[maxPos] + i*stepSize
ConvergedAt(lower, step, n) == lower + n * step

\* convergedSizes after the filling loop
Linear(lower, step) == [n \in 1..linearSteps |-> ConvergedAt(lower, step, n - 1)]

\* Variant in which both files return convergedSizes[knee].
ReturnIndexSame(v, knee) == knee

\* return convergedSizes[maxSlope(xys)] (main.go) / [maxSlope(xys)+1] (part_000)
ReturnIndex(v, knee) == IF v = "main.go" THEN knee ELSE knee + 1

(***************************************************************************)
(* testRange's measurement of one size.                                    *)
(***************************************************************************)
\* bytes per element: cacheLine64 (main.go) / int32 (part_000)
ElemBytes(v) == IF v = "main.go" THEN CacheLineBytes ELSE Int32Bytes

\* len(arr) after make([]T, size/width)
ElementCount(v, size) == size \div ElemBytes(v)

\* iterations of the sweep
Iterations(v, ph) ==
    IF v = "main.go" THEN (IF ph = 1 THEN IterationsStep1 ELSE IterationsStep2)
    ELSE IterationsVariant

\* The access loop of the model stops after MaxAccesses iterations.
LoopBound(n) == IF n < MaxAccesses THEN n ELSE MaxAccesses

\* Values r.Int() returns: non-negative.
RandInts == {0, 2147483647}

\* r.Int() % arrLength
Index(rnd, arrLength) == rnd % arrLength

\* Variant that stores 1 instead of incrementing.
IncrementAssigns(a, index) ==
    [n \in DOMAIN a \cup {index} |-> IF n = index THEN 1 ELSE a[n]]

\* arr[index]++ on the touched-elements map (untouched elements are 0)
Increment(a, index) ==
    IF index \in DOMAIN a THEN [a EXCEPT ![index] = @ + 1]
    ELSE [n \in DOMAIN a \cup {index} |-> IF n = index THEN 1 ELSE a[n]]

\* The buffer make() returns: all elements zero.
FreshBuffer(n) == [len |-> n, a |-> <<>>]

\* Variant that records the total time instead of the average.
AverageUndivided(ns, iterations) == ns

\* float64(int(elapsed.Nanoseconds()) / iterations)
Average(ns, iterations) == ns \div iterations

\* plotter.XY{X: float64(size), Y: average}
Sample(size, ns, iterations) == [X |-> size, Y |-> Average(ns, iterations)]

(***************************************************************************)
(* The machine: the average latency it shows for a buffer of a given size. *)
(*   step:  Low up to J, High above (a cache of J bytes)                   *)
(*   drop:  High up to J, Low above                                        *)
(*   flat:  Low everywhere                                                 *)
(*   saw:   (size div J) mod 3, a curve that rises and falls               *)
(*   noise: a step at J in the first sweep, and in the second sweep Low or *)
(*          High for each measurement, whatever the size                   *)
(***************************************************************************)
Low == 2
High == 9

Latency(b, size) ==
    CASE b.kind \in {"step", "noise"} -> IF size <= b.J THEN Low ELSE High
      [] b.kind = "drop" -> IF size <= b.J THEN High ELSE Low
      [] b.kind = "flat" -> Low
      [] b.kind = "saw"  -> (size \div b.J) % 3

LatencyChoices(b, ph, size) ==
    IF b.kind = "noise" /\ ph = 2 THEN {Low, High} ELSE {Latency(b, size)}

\* Jump sizes: in every bracket [Floor*2^k, Floor*2^(k+1)) of the geometric
\* range, the first and the last byte of each eighth.
Brackets == 0..15
JumpSizes ==
    { Floor * Pow2(k) + e * ((Floor \div linearSteps) * Pow2(k))
        + off * ((Floor \div linearSteps) * Pow2(k) - 1) :
        k \in Brackets, e \in 0..(linearSteps - 1), off \in {0, 1} }

Benches ==
    [kind : {"step"}, J : JumpSizes]
    \cup [kind : {"drop"}, J : {Floor, 3000, 65536}]
    \cup [kind : {"flat"}, J : {0}]
    \cup [kind : {"saw"}, J : {128, 384, 1024}]
    \cup [kind : {"noise"}, J : {Floor, 3000000}]

\* time.Since(start): the run takes latency * iterations nanoseconds and a
\* remainder below one nanosecond per access.
ElapsedChoices(b, ph, size, iterations) ==
    { l * iterations + r : l \in LatencyChoices(b, ph, size), r \in {0, iterations - 1} }

(***************************************************************************)
(* estimate_llc_size, step by step.                                        *)
(***************************************************************************)
\* The `sizes` argument of the running testRange call.
Candidates == IF phase = 1 THEN sizes ELSE convergedSizes

\* The loop variable `size` of the running iteration.
CurSize == At(Candidates, ri)

IdleKnee == kin = <<>> /\ kout = -1
IdleFormat == fin = <<>> /\ fout = ""

InitRun ==
    /\ mode = "run"
    /\ variant \in Variants
    /\ bench \in Benches
    /\ pc = "gen"
    /\ sizes = <<Floor>>
    /\ phase = 0
    /\ ri = 0
    /\ xysLocal = <<>>
    /\ arr = NoBuffer
    /\ i = 0
    /\ elapsed = 0
    /\ xys = <<>>
    /\ maxPos = 0
    /\ stepSize = 0
    /\ convergedSizes = <<>>
    /\ estimate = 0
    /\ stdout = <<>>
    /\ printed = ""
    /\ IdleKnee
    /\ IdleFormat

harness == <<mode, variant, bench, kin, kout, fin, fout>>

\* main.go:117-119: one turn of the doubling loop.
Generate ==
    /\ mode = "run" /\ pc = "gen"
    /\ GenContinue(sizes)
    /\ sizes' = Append(sizes, GenNext(sizes))
    /\ UNCHANGED <<harness, pc, phase, ri, xysLocal, arr, i, elapsed, xys, maxPos,
                   stepSize, convergedSizes, estimate, stdout, printed>>

\* main.go:121, 55: the doubling loop ends and testRange(sizes, ...) is entered.
CallTestRange ==
    /\ mode = "run" /\ pc = "gen"
    /\ ~GenContinue(sizes)
    /\ phase' = 1
    /\ ri' = 0
    /\ xysLocal' = <<>>
    /\ pc' = "range"
    /\ UNCHANGED <<harness, sizes, arr, i, elapsed, xys, maxPos, stepSize,
                   convergedSizes, estimate, stdout, printed>>

\* main.go:56-60 (part_000:83-90): the next size is taken, its buffer made,
\* the clock started. part_000 prints the size first.
Alloc ==
    /\ mode = "run" /\ pc = "range"
    /\ ri < Len(Candidates)
    /\ arr' = FreshBuffer(ElementCount(variant, CurSize))
    /\ i' = 0
    /\ elapsed' = 0
    /\ stdout' = IF variant = "part_000" THEN Append(stdout, CurSize) ELSE stdout
    /\ pc' = "loop"
    /\ UNCHANGED <<harness, sizes, phase, ri, xysLocal, xys, maxPos, stepSize,
                   convergedSizes, estimate, printed>>

\* main.go:61-63: one access, arr[r.Int()%arrLength].a++. A zero arrLength is
\* a division by zero, an index outside the buffer a range error: both panic.
Access ==
    /\ mode = "run" /\ pc = "loop"
    /\ i < LoopBound(Iterations(variant, phase))
    /\ \E rnd \in RandInts :
         IF arr.len = 0
         THEN pc' = "panic" /\ UNCHANGED <<arr, i>>
         ELSE LET index == Index(rnd, arr.len)
              IN IF index < 0 \/ index >= arr.len
                 THEN pc' = "panic" /\ UNCHANGED <<arr, i>>
                 ELSE /\ arr' = [arr EXCEPT !.a = Increment(@, index)]
                      /\ i' = i + 1
                      /\ pc' = pc
    /\ UNCHANGED <<harness, sizes, phase, ri, xysLocal, elapsed, xys, maxPos,
                   stepSize, convergedSizes, estimate, stdout, printed>>

\* main.go:64-70: the loop is over; the time is taken, the line printed
\* (main.go) and the sample appended.
Capture ==
    /\ mode = "run" /\ pc = "loop"
    /\ ~(i < LoopBound(Iterations(variant, phase)))
    /\ \E ns \in ElapsedChoices(bench, phase, CurSize, Iterations(variant, phase)) :
         /\ elapsed' = ns
         /\ xysLocal' = Append(xysLocal, Sample(CurSize, ns, Iterations(variant, phase)))
    /\ stdout' = IF variant = "main.go" THEN Append(stdout, CurSize) ELSE stdout
    /\ ri' = ri + 1
    /\ pc' = "range"
    /\ UNCHANGED <<harness, sizes, phase, arr, i, xys, maxPos, stepSize,
                   convergedSizes, estimate, printed>>

\* main.go:72, 121-125: testRange returns, the series is plotted and its knee taken.
ReturnStep1 ==
    /\ mode = "run" /\ pc = "range" /\ phase = 1
    /\ ~(ri < Len(Candidates))
    /\ xys' = xysLocal
    /\ maxPos' = maxSlope(xysLocal)
    /\ xysLocal' = <<>>
    /\ arr' = NoBuffer
    /\ i' = 0
    /\ elapsed' = 0
    /\ pc' = "converge"
    /\ UNCHANGED <<harness, sizes, phase, ri, stepSize, convergedSizes, estimate,
                   stdout, printed>>

\* main.go:93-95: p.Save fails and plotXYs panics, after either sweep.
PlotFails ==
    /\ mode = "run" /\ pc = "range"
    /\ ~(ri < Len(Candidates))
    /\ xys' = xysLocal
    /\ xysLocal' = <<>>
    /\ arr' = NoBuffer
    /\ i' = 0
    /\ elapsed' = 0
    /\ pc' = "aborted"
    /\ UNCHANGED <<harness, sizes, phase, ri, maxPos, stepSize, convergedSizes,
                   estimate, stdout, printed>>

\* main.go:127-136: the bracket is read, the linear sizes are made and
\* testRange(convergedSizes, ...) is entered. sizes[maxPos+1] outside the
\* slice panics.
Converge ==
    /\ mode = "run" /\ pc = "converge"
    /\ IF ~InRange(sizes, maxPos + 1)
       THEN /\ pc' = "panic"
            /\ UNCHANGED <<stepSize, convergedSizes, phase, ri, xysLocal>>
       ELSE /\ stepSize' = StepSizeOf(At(sizes, maxPos), At(sizes, maxPos + 1))
            /\ convergedSizes' = Linear(At(sizes, maxPos), stepSize')
            /\ phase' = 2
            /\ ri' = 0
            /\ xysLocal' = <<>>
            /\ pc' = "range"
    /\ UNCHANGED <<harness, sizes, arr, i, elapsed, xys, maxPos, estimate, stdout,
                   printed>>

\* main.go:72, 136-139, 25: the second series is plotted and the estimate
\* returned. An index outside convergedSizes panics.
ReturnStep2 ==
    /\ mode = "run" /\ pc = "range" /\ phase = 2
    /\ ~(ri < Len(Candidates))
    /\ xys' = xysLocal
    /\ xysLocal' = <<>>
    /\ arr' = NoBuffer
    /\ i' = 0
    /\ elapsed' = 0
    /\ LET k == ReturnIndex(variant, maxSlope(xysLocal))
       IN IF ~InRange(convergedSizes, k)
          THEN pc' = "panic" /\ UNCHANGED estimate
          ELSE pc' = "done" /\ estimate' = At(convergedSizes, k)
    /\ UNCHANGED <<harness, sizes, phase, ri, maxPos, stepSize, convergedSizes,
                   stdout, printed>>

\* main.go:26: fmt.Println("Estimated LLC size:", formatBytes(int64(estimate)))
PrintEstimate ==
    /\ mode = "run" /\ pc = "done"
    /\ printed' = formatBytes(ToLimbs(estimate))
    /\ pc' = "exit"
    /\ UNCHANGED <<harness, sizes, phase, ri, xysLocal, arr, i, elapsed, xys, maxPos,
                   stepSize, convergedSizes, estimate, stdout>>

Next ==
    \/ Generate
    \/ CallTestRange
    \/ Alloc
    \/ Access
    \/ Capture
    \/ ReturnStep1
    \/ PlotFails
    \/ Converge
    \/ ReturnStep2
    \/ PrintEstimate

Spec == InitRun /\ [][Next]_vars

\* The run is sequential and nothing but the process ending stops it.
FairSpec == Spec /\ WF_vars(Next)

(***************************************************************************)
(* maxSlope and formatBytes on their own: an argument is drawn and the     *)
(* function applied to it.                                                 *)
(***************************************************************************)
IdleRun ==
    /\ variant = "main.go" /\ bench = [kind |-> "flat", J |-> 0] /\ pc = "idle"
    /\ sizes = <<>> /\ phase = 0 /\ ri = 0 /\ xysLocal = <<>> /\ arr = NoBuffer
    /\ i = 0 /\ elapsed = 0 /\ xys = <<>> /\ maxPos = 0 /\ stepSize = 0
    /\ convergedSizes = <<>> /\ estimate = 0 /\ stdout = <<>> /\ printed = ""

\* A series with the given latencies; the sizes do not matter to maxSlope.
SeriesOf(ys) == [n \in 1..Len(ys) |-> [X |-> Floor * n, Y |-> ys[n]]]

LatencySeqs(maxLen) == UNION { [1..n -> 0..MaxLatency] : n \in 0..maxLen }

KneeInputs ==
    { SeriesOf(ys) : ys \in LatencySeqs(MaxSeriesLen) \cup {<<10, 10, 10, 50, 10>>} }

InitKnee ==
    /\ mode = "knee"
    /\ kin \in KneeInputs
    /\ kout = -1
    /\ IdleFormat
    /\ IdleRun

ApplyKnee ==
    /\ mode = "knee" /\ kout = -1
    /\ kout' = maxSlope(kin)
    /\ UNCHANGED <<mode, kin, fin, fout, runVars>>

SpecKnee == InitKnee /\ [][ApplyKnee]_vars

\* Arguments of formatBytes: every length an int64 can have, with the top
\* digit, the digit after it (the shown fraction) and the rest varied.
TopDigits == {1, 7, 512, 1023}
FractionDigits == {0, 256, 512, 1023}
FillDigits == {0, 1, 1023}
MaxDigits == Int64Bits \div LimbBits + 1

FormatInputs ==
    { b \in {<<>>} \cup { <<t>> : t \in TopDigits }
             \cup { [n \in 1..len |-> IF n = len THEN t
                                       ELSE IF n = len - 1 THEN f ELSE r] :
                      len \in 2..MaxDigits, t \in TopDigits, f \in FractionDigits,
                      r \in FillDigits } :
        IsInt64(b) }

InitFormat ==
    /\ mode = "format"
    /\ fin \in FormatInputs
    /\ fout = ""
    /\ IdleKnee
    /\ IdleRun

ApplyFormat ==
    /\ mode = "format" /\ fout = ""
    /\ fout' = formatBytes(fin)
    /\ UNCHANGED <<mode, kin, kout, fin, runVars>>

SpecFormat == InitFormat /\ [][ApplyFormat]_vars

\* The run together with maxSlope on its own.
SpecKneeRun == (InitRun \/ InitKnee) /\ [][Next \/ ApplyKnee]_vars

TypeOK ==
    /\ mode \in {"run", "knee", "format"}
    /\ variant \in Variants
    /\ pc \in {"idle", "gen", "range", "loop", "converge", "done", "exit", "panic", "aborted"}
    /\ phase \in 0..2
    /\ ri \in 0..Len(Candidates)
    /\ i \in 0..MaxAccesses
    /\ maxPos \in Nat

(***************************************************************************)
(* Helpers of the properties.                                              *)
(***************************************************************************)
Abs(n) == IF n < 0 THEN -n ELSE n

RECURSIVE SumOver(_, _)
SumOver(f, S) ==
    IF S = {} THEN 0
    ELSE LET n == CHOOSE m \in S : TRUE IN f[n] + SumOver(f, S \ {n})

\* Sum of all elements of a buffer.
BufferSum(buf) == SumOver(buf.a, DOMAIN buf.a)

\* Forward difference Y[n+1] - Y[n] of a series, n 0-based.
Forward(s, n) == At(s, n + 1).Y - At(s, n).Y

\* The estimate has been returned.
Returned == mode = "run" /\ pc \in {"done", "exit"}

\* The bracket phase 1 chose.
Lower == At(sizes, maxPos)
Upper == At(sizes, maxPos + 1)

(***************************************************************************)
(* C1. With a step curve (Low up to J, High above) whose jump J lies in    *)
(* the geometric range, the returned estimate is within one linear step    *)
(* of J, for every J.                                                      *)
(***************************************************************************)
C1_EstimateWithinOneStep ==
    (Returned /\ bench.kind = "step") => Abs(estimate - bench.J) <= stepSize

\* What does hold: the same for the jumps below the last linear size (a jump
\* in the last eighth of the bracket lies above every size of the second
\* sweep, which then sees a flat curve).
C1_WithinOneStepBelowLastEighth ==
    (Returned /\ bench.kind = "step" /\ bench.J < At(convergedSizes, linearSteps - 1))
        => Abs(estimate - bench.J) <= stepSize

(***************************************************************************)
(* C2. For a series of at least 2 samples maxSlope returns the lowest      *)
(* index whose forward difference equals the largest forward difference    *)
(* when that is strictly positive, and 0 when no forward difference is     *)
(* strictly positive; latencies 10,10,10,50,10 give 2.                     *)
(***************************************************************************)
C2_KneeIsFirstLargestRise ==
    (mode = "knee" /\ kout # -1 /\ Len(kin) >= 2) =>
        LET idx  == 0..(Len(kin) - 2)
            best == CHOOSE d \in { Forward(kin, n) : n \in idx } :
                        \A n \in idx : Forward(kin, n) <= d
        IN /\ best > 0 =>
                /\ kout \in idx
                /\ Forward(kin, kout) = best
                /\ \A n \in idx : n < kout => Forward(kin, n) < best
           /\ best <= 0 => kout = 0
           /\ kin = SeriesOf(<<10, 10, 10, 50, 10>>) => kout = 2

\* A tie: the largest rise occurs twice and the first occurrence is returned.
C2_Witness ==
    /\ mode = "knee" /\ kout = 1 /\ Len(kin) = 5
    /\ Forward(kin, 1) = MaxLatency /\ Forward(kin, 3) = MaxLatency

(***************************************************************************)
(* C3. The index maxSlope returns for a series of at least 2 samples is    *)
(* at least 0 and below len(series)-1; so the phase-1 knee is never the    *)
(* last index, sizes[maxPos+1] exists and reading the bracket never        *)
(* panics.                                                                 *)
(***************************************************************************)
C3_KneeIndexInRange ==
    /\ (mode = "knee" /\ kout # -1 /\ Len(kin) >= 2) =>
            (0 <= kout /\ kout < Len(kin) - 1)
    /\ (mode = "run" /\ pc \in {"converge", "done", "exit"}) =>
            (0 <= maxSlope(xys) /\ maxSlope(xys) < Len(xys) - 1)
    /\ (mode = "run" /\ pc = "converge") => maxPos = maxSlope(xys)
    /\ (mode = "run" /\ (phase = 2 \/ pc = "converge")) =>
            (0 <= maxPos /\ maxPos < Len(sizes) - 1 /\ InRange(sizes, maxPos + 1))
    /\ pc # "panic"

\* The knee on the last pair of the geometric sizes: the bracket's upper
\* bound is the last size.
C3_Witness ==
    /\ mode = "run" /\ phase = 2 /\ pc = "range"
    /\ maxPos = Len(sizes) - 2
    /\ convergedSizes # <<>>

(***************************************************************************)
(* C4. The geometric sizes start at 1024, every later one is twice its     *)
(* predecessor, they increase strictly, the doubling loop ends, and the    *)
(* last size is the first term >= 64 MiB: every other size is below it.    *)
(***************************************************************************)
GeometricShape ==
    mode = "run" =>
        /\ At(sizes, 0) = 1024
        /\ \A n \in 2..Len(sizes) : sizes[n] = 2 * sizes[n - 1] /\ sizes[n] > sizes[n - 1]
        /\ \A n \in 1..(Len(sizes) - 1) : sizes[n] < 64 * 1024 * 1024
        /\ pc # "gen" => Last(sizes) >= 64 * 1024 * 1024

C4_GeometricSizes == []GeometricShape /\ <>(mode = "run" /\ pc # "gen")

C4_Witness ==
    /\ mode = "run" /\ pc = "range" /\ phase = 1
    /\ Len(sizes) = 17 /\ Last(sizes) = 64 * 1024 * 1024

(***************************************************************************)
(* C5. For every bracket phase 1 produces, the linear sizes are 8, element *)
(* i is lower + i*((upper-lower) div 8), the first is lower, they increase *)
(* strictly and all are below upper; for 1024..2048 they are 1024, 1152,   *)
(* 1280, 1408, 1536, 1664, 1792, 1920.                                     *)
(***************************************************************************)
C5_LinearSizes ==
    (mode = "run" /\ phase = 2) =>
        /\ Len(convergedSizes) = 8
        /\ \A n \in 0..7 : At(convergedSizes, n) = Lower + n * ((Upper - Lower) \div 8)
        /\ At(convergedSizes, 0) = Lower
        /\ \A n \in 1..7 : At(convergedSizes, n) > At(convergedSizes, n - 1)
        /\ \A n \in 0..7 : At(convergedSizes, n) < Upper
        /\ (Lower = 1024 /\ Upper = 2048) =>
              convergedSizes = <<1024, 1152, 1280, 1408, 1536, 1664, 1792, 1920>>

C5_Witness ==
    /\ mode = "run" /\ phase = 2
    /\ convergedSizes = <<1024, 1152, 1280, 1408, 1536, 1664, 1792, 1920>>

(***************************************************************************)
(* C6. testRange returns one sample per candidate size, sample i carrying  *)
(* sizes[i] in the same order; its latency is the non-negative quotient    *)
(* elapsed nanoseconds / iterations of the one run made for that size;     *)
(* each size is measured exactly once.                                     *)
(***************************************************************************)
C6_OneSamplePerSize ==
    mode = "run" =>
        \* while a sweep runs: the samples so far are those of the first ri sizes
        /\ pc \in {"range", "loop"} =>
              /\ Len(xysLocal) = ri
              /\ \A n \in 1..ri : xysLocal[n].X = Candidates[n] /\ xysLocal[n].Y >= 0
        \* right after a measurement: its sample is elapsed / iterations
        /\ (pc = "range" /\ ri > 0) =>
              /\ elapsed >= 0
              /\ xysLocal[ri].Y = elapsed \div Iterations(variant, phase)
        \* the series testRange returned
        /\ pc = "converge" =>
              /\ Len(xys) = Len(sizes)
              /\ \A n \in 1..Len(sizes) : xys[n].X = sizes[n] /\ xys[n].Y >= 0
              /\ stdout = sizes
        /\ pc \in {"done", "exit"} =>
              /\ Len(xys) = Len(convergedSizes)
              /\ \A n \in 1..Len(convergedSizes) :
                    xys[n].X = convergedSizes[n] /\ xys[n].Y >= 0
              /\ stdout = sizes \o convergedSizes

\* The last measurement of the second sweep, with a remainder the division drops.
C6_Witness ==
    /\ mode = "run" /\ pc = "range" /\ phase = 2 /\ ri = 8
    /\ elapsed % Iterations(variant, phase) # 0
    /\ xysLocal[8].X = convergedSizes[8]

(***************************************************************************)
(* C7. formatBytes: below 1024 the bare integer and " B"; from 1024 on the *)
(* unit is the largest power 1024^(e+1) <= b, e indexing K,M,G,T,P,E; the  *)
(* loop ends with e <= 5 for every non-negative int64 (the prefix lookup   *)
(* stays in range) and the number shown is b/1024^(e+1) to one decimal     *)
(* place. format(0) = "0 B", format(1023) = "1023 B", format(1024) =       *)
(* "1.0 KiB", format(1536) = "1.5 KiB", format(1024*1024) = "1.0 MiB".     *)
(*                                                                         *)
(* The quotient is compared on the three leading base-1024 digits of b:    *)
(* exactly when b has no more, and otherwise up to what the digits left    *)
(* out can add (less than 10 units of the scaled comparison).              *)
(***************************************************************************)
\* "w.t uiB" for the number of tenths given.
Shown(tenths, e) ==
    ToString(tenths \div 10) \o "." \o ToString(tenths % 10) \o " "
        \o Prefixes[e + 1] \o "iB"

C7_FormatBytes ==
    (mode = "format" /\ fout # "") =>
        /\ Len(fin) <= 1 => fout = ToString(FromLimbs(fin)) \o " B"
        /\ Len(fin) >= 2 =>
              LET e     == Len(fin) - 2
                  lead  == FromLimbs(SubSeq(fin, IF e = 0 THEN 1 ELSE e, Len(fin)))
                  div   == IF e = 0 THEN 1024 ELSE 1024 * 1024
                  slack == IF e <= 1 THEN 0 ELSE 20
                  floor == (lead \div div) * 10 + ((lead % div) * 10) \div div
              IN /\ e \in 0..5
                 /\ fout # PanicString
                 /\ \E tenths \in {floor, floor + 1} :
                       /\ fout = Shown(tenths, e)
                       /\ 2 * Abs((tenths - 10 * (lead \div div)) * div
                                  - 10 * (lead % div)) <= div + slack
        /\ fin = ToLimbs(0) => fout = "0 B"
        /\ fin = ToLimbs(1023) => fout = "1023 B"
        /\ fin = ToLimbs(1024) => fout = "1.0 KiB"
        /\ fin = ToLimbs(1536) => fout = "1.5 KiB"
        /\ fin = ToLimbs(1024 * 1024) => fout = "1.0 MiB"

\* The largest int64, 2^63 - 1: the last prefix is used.
C7_Witness ==
    /\ mode = "format" /\ Len(fin) = 7
    /\ \A n \in 1..6 : fin[n] = 1023
    /\ fin[7] = 7
    /\ fout = "8.0 EiB"

(***************************************************************************)
(* C8. For every candidate size of either phase the element count (size    *)
(* div 64 in main.go, size div 4 in part_000) is at least 1, so the modulo *)
(* never divides by zero; every accessed index is within the buffer;       *)
(* exactly `iterations` accesses are made (here: as many as the loop is    *)
(* followed for), and after the loop the elements sum to that number.      *)
(***************************************************************************)
LoopOver == i = LoopBound(Iterations(variant, phase))

C8_AccessesStayInBuffer ==
    mode = "run" =>
        /\ pc # "panic"
        /\ \A n \in 1..Len(sizes) :
              sizes[n] \div 64 >= 1 /\ sizes[n] \div 4 >= 1
        /\ \A n \in 1..Len(convergedSizes) :
              convergedSizes[n] \div 64 >= 1 /\ convergedSizes[n] \div 4 >= 1
        /\ pc = "loop" =>
              /\ arr.len = CurSize \div (IF variant = "main.go" THEN 64 ELSE 4)
              /\ arr.len >= 1
              /\ DOMAIN arr.a \subseteq 0..(arr.len - 1)
              /\ i <= LoopBound(Iterations(variant, phase))
              /\ BufferSum(arr) = i
        /\ (pc = "range" /\ ri > 0) =>
              /\ LoopOver
              /\ BufferSum(arr) = LoopBound(Iterations(variant, phase))

\* The loop has ended and one element was hit twice.
C8_Witness ==
    /\ mode = "run" /\ pc = "loop" /\ LoopOver
    /\ \E n \in DOMAIN arr.a : arr.a[n] = 2

(***************************************************************************)
(* C9. main.go returns convergedSizes[k2] and part_000 returns             *)
(* convergedSizes[k2+1], k2 the knee of the second series; both indices    *)
(* are within 0..7, both estimates are linear sizes in [lower, upper), and *)
(* on the same series part_000's estimate is main.go's plus one step.      *)
(***************************************************************************)
C9_FinalEstimate ==
    /\ mode = "run" => pc # "panic"
    /\ Returned =>
          LET k2 == maxSlope(xys)
          IN /\ k2 \in 0..7 /\ k2 + 1 \in 0..7
             /\ variant = "main.go" => estimate = At(convergedSizes, k2)
             /\ variant = "part_000" =>
                   /\ estimate = At(convergedSizes, k2 + 1)
                   /\ estimate = At(convergedSizes, k2) + stepSize
             /\ \E n \in 1..8 : estimate = convergedSizes[n]
             /\ Lower <= estimate /\ estimate < Upper

\* part_000 with the knee on the last pair: it returns the last linear size.
C9_Witness ==
    /\ Returned /\ variant = "part_000"
    /\ maxSlope(xys) = 6
    /\ estimate = convergedSizes[8]

(***************************************************************************)
(* C10. A run of estimate_llc_size always terminates, after exactly 17     *)
(* phase-1 measurements followed by exactly 8 phase-2 measurements; each   *)
(* measurement allocates its buffer, runs the whole access loop and takes  *)
(* the time before the next size starts; at most one buffer is live and    *)
(* none is kept across sizes; no phase-2 measurement starts before the     *)
(* first sweep is complete and its knee computed.                          *)
(***************************************************************************)
\* The process has ended: main printed the estimate, or a panic ended it.
Terminated == mode = "run" /\ pc \in {"exit", "aborted", "panic"}

\* The progress lines of the measurements started (part_000) or finished
\* (main.go) so far.
ProgressLines ==
    LET started == IF variant = "part_000" /\ pc = "loop" THEN ri + 1 ELSE ri
    IN CASE phase = 0 -> <<>>
         [] phase = 1 /\ pc \in {"range", "loop"} -> SubSeq(sizes, 1, started)
         [] phase = 1 -> sizes
         [] phase = 2 /\ pc \in {"range", "loop"} ->
                sizes \o SubSeq(convergedSizes, 1, started)
         [] OTHER -> sizes \o convergedSizes

\* allocate -> whole access loop -> timing capture, one size at a time
InSequence ==
    mode = "run" =>
        /\ stdout = ProgressLines
        /\ pc = "loop" =>
              /\ arr = FreshBuffer(ElementCount(variant, CurSize))
                    \/ (i > 0 /\ arr.len = ElementCount(variant, CurSize))
              /\ BufferSum(arr) = i
              /\ Len(xysLocal) = ri
        /\ (pc = "range" /\ ri > 0) =>
              /\ LoopOver
              /\ Len(xysLocal) = ri
              /\ arr.len = ElementCount(variant, Candidates[ri])
        /\ pc \notin {"range", "loop"} => arr = NoBuffer
        /\ (pc = "range" /\ ri = 0) => arr = NoBuffer

\* the second sweep starts only after the first is complete and its knee taken
PhasesInOrder ==
    mode = "run" =>
        /\ phase <= 1 => convergedSizes = <<>>
        /\ (phase = 2 /\ pc \in {"range", "loop"}) =>
              /\ Len(xys) = 17
              /\ \A n \in 1..17 : xys[n].X = sizes[n]
              /\ maxPos = maxSlope(xys)
              /\ SubSeq(stdout, 1, 17) = sizes

\* 17 measurements of the geometric sizes, then 8 of the linear sizes
BothSweepsDone ==
    /\ Len(sizes) = 17 /\ Len(convergedSizes) = 8
    /\ stdout = sizes \o convergedSizes

EveryRunDoesBothSweeps ==
    (mode = "run" /\ pc \in {"done", "exit", "aborted", "panic"}) => BothSweepsDone

C10_SequencingAndTermination ==
    /\ []InSequence
    /\ []PhasesInOrder
    /\ []EveryRunDoesBothSweeps
    /\ <>Terminated

\* Amended: a run that plotXYs does not abort does both sweeps; plotXYs can
\* abort it only at the end of a sweep.
ReturnedRunDidBothSweeps ==
    /\ Returned => BothSweepsDone
    /\ (mode = "run" /\ pc = "aborted") =>
          /\ Len(sizes) = 17
          /\ stdout = sizes \/ (Len(convergedSizes) = 8 /\ stdout = sizes \o convergedSizes)
    /\ pc # "panic"

C10_SequencingUnlessAborted ==
    /\ []InSequence
    /\ []PhasesInOrder
    /\ []ReturnedRunDidBothSweeps
    /\ <>Terminated

\* A run that returned after both sweeps and printed its estimate.
C10_Witness ==
    /\ mode = "run" /\ pc = "exit"
    /\ Len(stdout) = 25
    /\ printed # ""

====
